---- MODULE Spec2Model ----
(***************************************************************************)
(* bench-allocator.c: a single-threaded allocator benchmark.  The workload *)
(* (phase_churn, phase_accumulate, phase_fragment, the cleanup of main) is *)
(* specification Spec; the arithmetic of main around it (argument parsing, *)
(* clamping, resident-memory readings, the report) is SpecDriver.          *)
(***************************************************************************)
EXTENDS Integers, Sequences, FiniteSets, TLC

(***************************************************************************)
(* Bounds of the model.  POOL is the slot capacity of phase_churn (2048 in *)
(* the source, line 64), scaled so that slot collisions happen within      *)
(* MaxRounds rounds; rounds and count are the loop counts handed to the    *)
(* phases (main hands at least 1000 and 100).                              *)
(***************************************************************************)
POOL == 4
MaxRounds == 5
MaxCount == 4

NULL == 0
\* the content of a list entry that malloc handed out and nobody wrote yet
UNINIT == -1

(***************************************************************************)
(* The generator.  A 64-bit register is a function from bit positions      *)
(* (0 = least significant) to {0, 1}; shifts drop the bits that leave the  *)
(* register, as unsigned long long arithmetic does.                        *)
(***************************************************************************)
WIDTH == 64
BYTE == 256
Bits == 0..(WIDTH - 1)

\* 0xdeadbeefcafe1234, most significant hex digit first
SeedHex == <<13, 14, 10, 13, 11, 14, 14, 15, 12, 10, 15, 14, 1, 2, 3, 4>>

Pow2(n) == IF n = 0 THEN 1 ELSE IF n = 1 THEN 2 ELSE IF n = 2 THEN 4 ELSE 8

rng_seed == [k \in Bits |-> (SeedHex[16 - (k \div 4)] \div Pow2(k % 4)) % 2]

XOR(a, b) == [k \in Bits |-> (a[k] + b[k]) % 2]
SHL(a, n) == [k \in Bits |-> IF k >= n THEN a[k - n] ELSE 0]
SHR(a, n) == [k \in Bits |-> IF k + n < WIDTH THEN a[k + n] ELSE 0]

\* the register after one draw (which is also the value the draw returns)
xorshift64(x) ==
    LET x1 == XOR(x, SHL(x, 13))
        x2 == XOR(x1, SHR(x1, 7))
    IN  XOR(x2, SHL(x2, 17))

\* byte j of x (byte 0 = least significant)
ByteOf(x, j) ==
    x[8 * j] + 2 * x[8 * j + 1] + 4 * x[8 * j + 2] + 8 * x[8 * j + 3]
    + 16 * x[8 * j + 4] + 32 * x[8 * j + 5] + 64 * x[8 * j + 6]
    + 128 * x[8 * j + 7]

\* (the bytes j and above of x) % m
RECURSIVE ModFrom(_, _, _)
ModFrom(x, j, m) ==
    IF 8 * j >= WIDTH THEN 0
    ELSE (BYTE * ModFrom(x, j + 1, m) + ByteOf(x, j)) % m

\* x % m for a 64-bit x and 0 < m <= 2^16
Mod(x, m) == ModFrom(x, 0, m)

\* rand_range(lo, hi), given the value x its draw returned
rand_range(x, lo, hi) == lo + Mod(x, hi - lo)

(***************************************************************************)
(* Program constants.                                                      *)
(***************************************************************************)
CHURN_LO == 64
CHURN_HI == 4096
ACCUM_LO == 4096
ACCUM_HI == 65536
FRAG_LO == 128
FRAG_HI == 8192
ACCUM_FILL == 171
FRAG_FILL == 205
SIZEOF_PTR == 8

(***************************************************************************)
(* State of the workload.                                                  *)
(*   pc            where main is                                           *)
(*   rounds, accum_count   the arguments of phase_churn, phase_accumulate  *)
(*   i             the loop index of the loop pc is in                     *)
(*   rng_state     the generator's register                                *)
(*   pool          the slot array of phase_churn                           *)
(*   accum_ptrs    main's pointer to the list (NULL or a handle)           *)
(*   list          the storage accum_ptrs addresses                        *)
(*   accum_actual  main's copy of the list length                          *)
(*   heap          every block malloc ever returned, by handle; handles    *)
(*                 are never reused, so a stale handle is recognisable     *)
(*   null_mapped   a store through a null list did not trap                *)
(*   status        "running", "returned_0" or "killed_SIGSEGV"             *)
(* History, for the allocation/free call counts:                           *)
(*   churn_mallocs, churn_frees   successful malloc calls and free calls   *)
(*                 on non-null handles made by phase_churn                 *)
(*   acc_attempts  malloc calls phase_accumulate made for entries          *)
(*   acc_out       the list as phase_accumulate returned it                *)
(*   draws         generator draws so far                                  *)
(*   req           the requests of the last loop iteration                 *)
(*                                                                         *)
(* State of the driver (main's locals and its report):                     *)
(*   argc, argv1   the command line                                        *)
(*   rss_start .. rss_final   the five resident-memory readings            *)
(*   ops           the operation count printed as "Total alloc ops"        *)
(*   frag          the divisions main made for the fragmentation section   *)
(*                 it printed: none, or one <<numerator, denominator>>     *)
(***************************************************************************)
VARIABLES pc, rounds, accum_count, i, rng_state, pool, accum_ptrs, list,
          accum_actual, heap, null_mapped, status,
          churn_mallocs, churn_frees, acc_attempts, acc_out, draws, req,
          argc, argv1, rss_start, rss_after_churn, rss_after_accum,
          rss_after_frag, rss_final, ops, frag

\* what the workload never writes
dvars == <<rounds, accum_count, argc, argv1, rss_start, rss_after_churn,
           rss_after_accum, rss_after_frag, rss_final, ops, frag>>

\* what the driver's arithmetic never writes
hvars == <<i, rng_state, pool, accum_ptrs, list, accum_actual, heap,
           null_mapped, churn_mallocs, churn_frees, acc_attempts, acc_out,
           draws, req>>

vars == <<pc, status, dvars, hvars>>

Slots == 0..(POOL - 1)
NoReq == [idx |-> 0 - 1, freed |-> FALSE, sz |-> 0]

(***************************************************************************)
(* The allocator the program runs on.  malloc either fails (NULL) or       *)
(* returns a fresh block; the caller chooses nothing.                      *)
(***************************************************************************)
Block(sz, ph) ==
    [size |-> sz, fill |-> 0 - 1, filled |-> 0, live |-> TRUE, frees |-> 0, phase |-> ph]

\* the heap after malloc(sz): ok says whether the allocator had memory
malloc(hp, sz, ph, ok) == IF ok THEN Append(hp, Block(sz, ph)) ELSE hp
\* the handle that malloc call returned
malloc_result(hp, ok) == IF ok THEN Len(hp) + 1 ELSE NULL

\* free(h): free(NULL) does nothing
free(hp, h) ==
    IF h = NULL THEN hp
    ELSE [hp EXCEPT ![h].live = FALSE, ![h].frees = @ + 1]

\* memset(h, c, n)
memset(hp, h, c, n) == [hp EXCEPT ![h].fill = c, ![h].filled = n]

(***************************************************************************)
(* phase_churn(rounds)                                                     *)
(***************************************************************************)
\* ChurnRound with the occupied slot overwritten without being freed
ChurnRound_NoFreeBeforeOverwrite ==
    /\ pc = "phase_churn"
    /\ i < rounds
    /\ \E ok \in BOOLEAN :
        LET x1  == xorshift64(rng_state)
            idx == Mod(x1, POOL)
            x2  == xorshift64(x1)
            sz  == rand_range(x2, CHURN_LO, CHURN_HI)
            p   == malloc_result(heap, ok)
            hp2 == malloc(heap, sz, "churn", ok)
        IN  /\ rng_state' = x2
            /\ draws' = draws + 2
            /\ pool' = [pool EXCEPT ![idx] = p]
            /\ heap' = IF p # NULL THEN memset(hp2, p, i % BYTE, sz) ELSE hp2
            /\ churn_frees' = churn_frees
            /\ churn_mallocs' = churn_mallocs + (IF p # NULL THEN 1 ELSE 0)
            /\ req' = [idx |-> idx, freed |-> FALSE, sz |-> sz]
    /\ i' = i + 1
    /\ UNCHANGED <<pc, accum_ptrs, list, accum_actual, null_mapped, status,
                   acc_attempts, acc_out>>
    /\ UNCHANGED dvars

\* one iteration of the round loop (lines 68-80)
ChurnRound ==
    /\ pc = "phase_churn"
    /\ i < rounds
    /\ \E ok \in BOOLEAN :
        LET x1  == xorshift64(rng_state)
            idx == Mod(x1, POOL)
            old == pool[idx]
            hp1 == free(heap, old)
            x2  == xorshift64(x1)
            sz  == rand_range(x2, CHURN_LO, CHURN_HI)
            p   == malloc_result(hp1, ok)
            hp2 == malloc(hp1, sz, "churn", ok)
        IN  /\ rng_state' = x2
            /\ draws' = draws + 2
            /\ pool' = [pool EXCEPT ![idx] = p]
            /\ heap' = IF p # NULL THEN memset(hp2, p, i % BYTE, sz) ELSE hp2
            /\ churn_frees' = churn_frees + (IF old # NULL THEN 1 ELSE 0)
            /\ churn_mallocs' = churn_mallocs + (IF p # NULL THEN 1 ELSE 0)
            /\ req' = [idx |-> idx, freed |-> old # NULL, sz |-> sz]
    /\ i' = i + 1
    /\ UNCHANGED <<pc, accum_ptrs, list, accum_actual, null_mapped, status,
                   acc_attempts, acc_out>>
    /\ UNCHANGED dvars

\* the round loop ends (line 68, i == rounds)
ChurnLoopEnd ==
    /\ pc = "phase_churn"
    /\ i >= rounds
    /\ pc' = "churn_cleanup"
    /\ i' = 0
    /\ UNCHANGED <<rng_state, pool, accum_ptrs, list, accum_actual, heap,
                   null_mapped, status, churn_mallocs, churn_frees,
                   acc_attempts, acc_out, draws, req>>
    /\ UNCHANGED dvars

\* ChurnCleanup with the loop stopping one slot short of freeing
ChurnCleanup_SkipLastSlot ==
    /\ pc = "churn_cleanup"
    /\ i < POOL
    /\ heap' = IF i < POOL - 1 THEN free(heap, pool[i]) ELSE heap
    /\ churn_frees' = churn_frees + (IF pool[i] # NULL /\ i < POOL - 1 THEN 1 ELSE 0)
    /\ i' = i + 1
    /\ UNCHANGED <<pc, rng_state, pool, accum_ptrs, list, accum_actual,
                   null_mapped, status, churn_mallocs, acc_attempts, acc_out,
                   draws, req>>
    /\ UNCHANGED dvars

\* one iteration of the cleanup loop (lines 83-84): the slot is freed and
\* keeps its value
ChurnCleanup ==
    /\ pc = "churn_cleanup"
    /\ i < POOL
    /\ heap' = free(heap, pool[i])
    /\ churn_frees' = churn_frees + (IF pool[i] # NULL THEN 1 ELSE 0)
    /\ i' = i + 1
    /\ UNCHANGED <<pc, rng_state, pool, accum_ptrs, list, accum_actual,
                   null_mapped, status, churn_mallocs, acc_attempts, acc_out,
                   draws, req>>
    /\ UNCHANGED dvars

\* phase_churn returns (line 85); main goes on to phase_accumulate
ChurnReturn ==
    /\ pc = "churn_cleanup"
    /\ i >= POOL
    /\ pc' = "phase_accumulate"
    /\ i' = 0
    /\ UNCHANGED <<rng_state, pool, accum_ptrs, list, accum_actual, heap,
                   null_mapped, status, churn_mallocs, churn_frees,
                   acc_attempts, acc_out, draws, req>>
    /\ UNCHANGED dvars

(***************************************************************************)
(* phase_accumulate(count, &accum_ptrs, &accum_actual)                     *)
(***************************************************************************)
\* lines 93-94: the list is allocated and never checked
AccumulateList ==
    /\ pc = "phase_accumulate"
    /\ \E ok \in BOOLEAN :
        /\ accum_ptrs' = malloc_result(heap, ok)
        /\ heap' = malloc(heap, SIZEOF_PTR * accum_count, "list", ok)
        /\ list' = IF ok THEN [k \in 1..accum_count |-> UNINIT] ELSE <<>>
    /\ accum_actual' = accum_count
    /\ pc' = "accumulate_loop"
    /\ i' = 0
    /\ UNCHANGED <<rng_state, pool, null_mapped, status, churn_mallocs,
                   churn_frees, acc_attempts, acc_out, draws, req>>
    /\ UNCHANGED dvars

\* AccumulateEntry with a failed allocation ending the loop
AccumulateEntry_StopAtFailure ==
    /\ pc = "accumulate_loop"
    /\ i < accum_count
    /\ accum_ptrs # NULL \/ null_mapped
    /\ \E ok \in BOOLEAN :
        LET x   == xorshift64(rng_state)
            sz  == rand_range(x, ACCUM_LO, ACCUM_HI)
            p   == malloc_result(heap, ok)
            hp1 == malloc(heap, sz, "accumulate", ok)
        IN  /\ rng_state' = x
            /\ draws' = draws + 1
            /\ list' = [list EXCEPT ![i + 1] = p]
            /\ heap' = IF p # NULL THEN memset(hp1, p, ACCUM_FILL, sz) ELSE hp1
            /\ req' = [idx |-> i, freed |-> FALSE, sz |-> sz]
            /\ i' = IF p # NULL THEN i + 1 ELSE accum_count
    /\ acc_attempts' = acc_attempts + 1
    /\ UNCHANGED <<pc, pool, accum_ptrs, accum_actual, null_mapped, status,
                   churn_mallocs, churn_frees, acc_out>>
    /\ UNCHANGED dvars

\* one iteration of lines 96-101 when the list has storage
AccumulateEntry ==
    /\ pc = "accumulate_loop"
    /\ i < accum_count
    /\ accum_ptrs # NULL \/ null_mapped
    /\ \E ok \in BOOLEAN :
        LET x   == xorshift64(rng_state)
            sz  == rand_range(x, ACCUM_LO, ACCUM_HI)
            p   == malloc_result(heap, ok)
            hp1 == malloc(heap, sz, "accumulate", ok)
        IN  /\ rng_state' = x
            /\ draws' = draws + 1
            /\ list' = [list EXCEPT ![i + 1] = p]
            /\ heap' = IF p # NULL THEN memset(hp1, p, ACCUM_FILL, sz) ELSE hp1
            /\ req' = [idx |-> i, freed |-> FALSE, sz |-> sz]
    /\ acc_attempts' = acc_attempts + 1
    /\ i' = i + 1
    /\ UNCHANGED <<pc, pool, accum_ptrs, accum_actual, null_mapped, status,
                   churn_mallocs, churn_frees, acc_out>>
    /\ UNCHANGED dvars

\* the same iteration when the list allocation failed: line 98 stores the
\* entry through the null pointer, which is undefined.  Either the store
\* traps and the process is killed, the entry just allocated still live, or
\* address 0 is mapped and the run goes on with the list stored there.
AccumulateEntryNullList ==
    /\ pc = "accumulate_loop"
    /\ i < accum_count
    /\ accum_ptrs = NULL /\ ~null_mapped
    /\ \E ok \in BOOLEAN, trap \in BOOLEAN :
        LET x   == xorshift64(rng_state)
            sz  == rand_range(x, ACCUM_LO, ACCUM_HI)
            p   == malloc_result(heap, ok)
            hp1 == malloc(heap, sz, "accumulate", ok)
        IN  /\ rng_state' = x
            /\ draws' = draws + 1
            /\ req' = [idx |-> i, freed |-> FALSE, sz |-> sz]
            /\ IF trap
               THEN /\ pc' = "crashed"
                    /\ status' = "killed_SIGSEGV"
                    /\ heap' = hp1
                    /\ i' = i
                    /\ UNCHANGED <<list, null_mapped>>
               ELSE /\ null_mapped' = TRUE
                    /\ list' = [k \in 1..accum_count |->
                                   IF k = i + 1 THEN p ELSE UNINIT]
                    /\ heap' = IF p # NULL THEN memset(hp1, p, ACCUM_FILL, sz)
                               ELSE hp1
                    /\ i' = i + 1
                    /\ UNCHANGED <<pc, status>>
    /\ acc_attempts' = acc_attempts + 1
    /\ UNCHANGED <<pool, accum_ptrs, accum_actual, churn_mallocs, churn_frees,
                   acc_out>>
    /\ UNCHANGED dvars

\* what phase_accumulate hands back, entry by entry
Snapshot(lst, hp) ==
    [k \in 1..Len(lst) |->
        IF lst[k] = NULL \/ lst[k] = UNINIT
        THEN [ptr |-> lst[k], size |-> 0, fill |-> 0, filled |-> 0]
        ELSE [ptr |-> lst[k], size |-> hp[lst[k]].size,
              fill |-> hp[lst[k]].fill, filled |-> hp[lst[k]].filled]]

\* phase_accumulate returns (line 102); main calls phase_fragment
AccumulateReturn ==
    /\ pc = "accumulate_loop"
    /\ i >= accum_count
    /\ pc' = "fragment_free"
    /\ i' = 1
    /\ acc_out' = Snapshot(list, heap)
    /\ UNCHANGED <<rng_state, pool, accum_ptrs, list, accum_actual, heap,
                   null_mapped, status, churn_mallocs, churn_frees,
                   acc_attempts, draws, req>>
    /\ UNCHANGED dvars

(***************************************************************************)
(* phase_fragment(accum_ptrs, accum_actual)                                *)
(***************************************************************************)
\* FragmentFree freeing the even-indexed neighbour as well
FragmentFree_EveryIndex ==
    /\ pc = "fragment_free"
    /\ i < accum_actual
    /\ heap' = free(free(heap, list[i + 1]), list[i])
    /\ list' = [list EXCEPT ![i + 1] = NULL, ![i] = NULL]
    /\ i' = i + 2
    /\ UNCHANGED <<pc, rng_state, pool, accum_ptrs, accum_actual, null_mapped,
                   status, churn_mallocs, churn_frees, acc_attempts, acc_out,
                   draws, req>>
    /\ UNCHANGED dvars

\* FragmentFree with the freed entry left in the list
FragmentFree_NoNull ==
    /\ pc = "fragment_free"
    /\ i < accum_actual
    /\ heap' = free(heap, list[i + 1])
    /\ i' = i + 2
    /\ UNCHANGED <<pc, rng_state, pool, accum_ptrs, list, accum_actual,
                   null_mapped, status, churn_mallocs, churn_frees,
                   acc_attempts, acc_out, draws, req>>
    /\ UNCHANGED dvars

\* one iteration of lines 111-114
FragmentFree ==
    /\ pc = "fragment_free"
    /\ i < accum_actual
    /\ heap' = free(heap, list[i + 1])
    /\ list' = [list EXCEPT ![i + 1] = NULL]
    /\ i' = i + 2
    /\ UNCHANGED <<pc, rng_state, pool, accum_ptrs, accum_actual, null_mapped,
                   status, churn_mallocs, churn_frees, acc_attempts, acc_out,
                   draws, req>>
    /\ UNCHANGED dvars

FragmentFreeEnd ==
    /\ pc = "fragment_free"
    /\ i >= accum_actual
    /\ pc' = "fragment_alloc"
    /\ i' = 1
    /\ UNCHANGED <<rng_state, pool, accum_ptrs, list, accum_actual, heap,
                   null_mapped, status, churn_mallocs, churn_frees,
                   acc_attempts, acc_out, draws, req>>
    /\ UNCHANGED dvars

\* FragmentAlloc drawing a second, smaller size when the allocation fails
FragmentAlloc_RedrawOnFailure ==
    /\ pc = "fragment_alloc"
    /\ i < accum_actual
    /\ \E ok \in BOOLEAN :
        LET x   == xorshift64(rng_state)
            sz  == rand_range(x, FRAG_LO, FRAG_HI)
            p   == malloc_result(heap, ok)
            hp1 == malloc(heap, sz, "fragment", ok)
        IN  /\ rng_state' = IF ok THEN x ELSE xorshift64(x)
            /\ draws' = draws + (IF ok THEN 1 ELSE 2)
            /\ list' = [list EXCEPT ![i + 1] = p]
            /\ heap' = IF p # NULL THEN memset(hp1, p, FRAG_FILL, sz) ELSE hp1
            /\ req' = [idx |-> i, freed |-> FALSE, sz |-> sz]
    /\ i' = i + 2
    /\ UNCHANGED <<pc, pool, accum_ptrs, accum_actual, null_mapped, status,
                   churn_mallocs, churn_frees, acc_attempts, acc_out>>
    /\ UNCHANGED dvars

\* one iteration of lines 117-122
FragmentAlloc ==
    /\ pc = "fragment_alloc"
    /\ i < accum_actual
    /\ \E ok \in BOOLEAN :
        LET x   == xorshift64(rng_state)
            sz  == rand_range(x, FRAG_LO, FRAG_HI)
            p   == malloc_result(heap, ok)
            hp1 == malloc(heap, sz, "fragment", ok)
        IN  /\ rng_state' = x
            /\ draws' = draws + 1
            /\ list' = [list EXCEPT ![i + 1] = p]
            /\ heap' = IF p # NULL THEN memset(hp1, p, FRAG_FILL, sz) ELSE hp1
            /\ req' = [idx |-> i, freed |-> FALSE, sz |-> sz]
    /\ i' = i + 2
    /\ UNCHANGED <<pc, pool, accum_ptrs, accum_actual, null_mapped, status,
                   churn_mallocs, churn_frees, acc_attempts, acc_out>>
    /\ UNCHANGED dvars

\* phase_fragment returns (line 123); main starts its cleanup
FragmentReturn ==
    /\ pc = "fragment_alloc"
    /\ i >= accum_actual
    /\ pc' = "cleanup"
    /\ i' = 0
    /\ UNCHANGED <<rng_state, pool, accum_ptrs, list, accum_actual, heap,
                   null_mapped, status, churn_mallocs, churn_frees,
                   acc_attempts, acc_out, draws, req>>
    /\ UNCHANGED dvars

(***************************************************************************)
(* main's cleanup                                                          *)
(***************************************************************************)
\* one iteration of lines 171-172: the entry is freed and keeps its value
CleanupEntry ==
    /\ pc = "cleanup"
    /\ i < accum_actual
    /\ heap' = free(heap, list[i + 1])
    /\ i' = i + 1
    /\ UNCHANGED <<pc, rng_state, pool, accum_ptrs, list, accum_actual,
                   null_mapped, status, churn_mallocs, churn_frees,
                   acc_attempts, acc_out, draws, req>>
    /\ UNCHANGED dvars

\* line 173, and main runs to return 0 (line 213)
CleanupList ==
    /\ pc = "cleanup"
    /\ i >= accum_actual
    /\ heap' = free(heap, accum_ptrs)
    /\ pc' = "done"
    /\ status' = "returned_0"
    /\ UNCHANGED <<i, rng_state, pool, accum_ptrs, list, accum_actual,
                   null_mapped, churn_mallocs, churn_frees, acc_attempts,
                   acc_out, draws, req>>
    /\ UNCHANGED dvars

WorkloadInit ==
    /\ i = 0
    /\ rng_state = rng_seed
    /\ pool = [s \in Slots |-> NULL]
    /\ accum_ptrs = NULL
    /\ list = <<>>
    /\ accum_actual = 0
    /\ heap = <<>>
    /\ null_mapped = FALSE
    /\ churn_mallocs = 0
    /\ churn_frees = 0
    /\ acc_attempts = 0
    /\ acc_out = <<>>
    /\ draws = 0
    /\ req = NoReq

\* main's locals before any reading or report
DriverIdle ==
    /\ rss_start = 0
    /\ rss_after_churn = 0
    /\ rss_after_accum = 0
    /\ rss_after_frag = 0
    /\ rss_final = 0
    /\ ops = 0
    /\ frag = <<>>

\* the workload, entered at the call of phase_churn (line 152); rounds and
\* accum_count stand for the loop counts main hands to the phases, scaled
\* down to MaxRounds and MaxCount
Init ==
    /\ pc = "phase_churn"
    /\ status = "running"
    /\ rounds \in 0..MaxRounds
    /\ accum_count \in 0..MaxCount
    /\ argc = 1
    /\ argv1 = <<>>
    /\ DriverIdle
    /\ WorkloadInit

Next ==
    \/ ChurnRound
    \/ ChurnLoopEnd
    \/ ChurnCleanup
    \/ ChurnReturn
    \/ AccumulateList
    \/ AccumulateEntry
    \/ AccumulateEntryNullList
    \/ AccumulateReturn
    \/ FragmentFree
    \/ FragmentFreeEnd
    \/ FragmentAlloc
    \/ FragmentReturn
    \/ CleanupEntry
    \/ CleanupList

Spec == Init /\ [][Next]_vars

(***************************************************************************)
(* The driver: main's arithmetic.  The phases it calls act on the heap     *)
(* alone (hvars), never on main's locals, and are the subject of Spec.     *)
(***************************************************************************)
MaxArgLen == 2
MaxRss == 2

DEFAULT_ROUNDS == 500000
MIN_ROUNDS == 1000
ACCUM_DIV == 50
MIN_ACCUM == 100
OPS_PER_ACCUM == 3

DigitChars == <<"0", "1", "2", "3", "4", "5", "6", "7", "8", "9">>
IsDigit(c) == \E d \in 1..10 : DigitChars[d] = c
DigitVal(c) == (CHOOSE d \in 1..10 : DigitChars[d] = c) - 1
IsSpace(c) == c \in {" ", "\t", "\n"}

RECURSIVE SkipSpace(_)
SkipSpace(s) ==
    IF s # <<>> /\ IsSpace(Head(s)) THEN SkipSpace(Tail(s)) ELSE s

\* the value of the leading digits of s, continuing from acc
RECURSIVE Digits(_, _)
Digits(s, acc) ==
    IF s = <<>> \/ ~IsDigit(Head(s)) THEN acc
    ELSE Digits(Tail(s), 10 * acc + DigitVal(Head(s)))

\* atoi: leading white space, an optional sign, then digits up to the first
\* character that is none; 0 when there is no digit.  (Arguments here are
\* short enough that the value fits an int.)
atoi(s) ==
    LET t == SkipSpace(s)
    IN  IF t = <<>> THEN 0
        ELSE IF Head(t) = "-" THEN 0 - Digits(Tail(t), 0)
        ELSE IF Head(t) = "+" THEN Digits(Tail(t), 0)
        ELSE Digits(t, 0)

\* parse_rounds falling back to the default when atoi finds no number
parse_rounds_DefaultOnZero(ac, a1) ==
    IF ac > 1 /\ atoi(a1) # 0 THEN atoi(a1) ELSE DEFAULT_ROUNDS
\* lines 132-134
parse_rounds(ac, a1) == IF ac > 1 THEN atoi(a1) ELSE DEFAULT_ROUNDS
\* lines 135-136
clamp_rounds(r) == IF r < MIN_ROUNDS THEN MIN_ROUNDS ELSE r
\* derive_accum_count without its floor
derive_accum_count_NoFloor(r) == r \div ACCUM_DIV
\* lines 138-140; the quotient of C's int division (r is positive here)
derive_accum_count(r) ==
    IF r \div ACCUM_DIV < MIN_ACCUM THEN MIN_ACCUM ELSE r \div ACCUM_DIV
\* line 197
total_ops(r, a) == r + a * OPS_PER_ACCUM
\* frag_reported testing the post-fragment reading alone
frag_reported_FragOnly(accum, fragd) == fragd > 0
\* line 205
frag_reported(accum, fragd) == accum > 0 /\ fragd > 0
\* line 206, the quotient kept as <<numerator, denominator>>
frag_ratio(accum, fragd) == <<fragd, accum>>

\* What /proc/self/status can answer: the file does not open, it has no
\* VmRSS line, or the line carries a number of kilobytes.
ProbeOutcomes ==
    {[opened |-> FALSE, vmrss |-> FALSE, kb |-> 0],
     [opened |-> TRUE, vmrss |-> FALSE, kb |-> 0]}
    \cup {[opened |-> TRUE, vmrss |-> TRUE, kb |-> v] : v \in 0..MaxRss}

\* read_rss_kb (lines 43-56)
read_rss_kb(o) == IF ~o.opened THEN 0 ELSE IF ~o.vmrss THEN 0 ELSE o.kb

\* decimal notation of n, as a shell user types it
RECURSIVE DecNat(_)
DecNat(n) ==
    IF n < 10 THEN <<DigitChars[n + 1]>>
    ELSE Append(DecNat(n \div 10), DigitChars[(n % 10) + 1])
Dec(n) == IF n < 0 THEN <<"-">> \o DecNat(0 - n) ELSE DecNat(n)

\* the command lines tried: every string of at most MaxArgLen characters of
\* ArgChars, and the decimal notation of the numbers of ArgInts
ArgChars == {"0", "7", "-", "+", " ", "x"}
ArgInts == {0 - 500, 0 - 1, 0, 1, 49, 500, 999, 1000, 1001, 1049, 1050, 4999,
            5000, 5049, 5050, 5099, 5100, 12345, 500000, 1000000}
RECURSIVE Strings(_)
Strings(n) ==
    IF n = 0 THEN {<<>>}
    ELSE Strings(n - 1)
         \cup {Append(t, c) : t \in {u \in Strings(n - 1) : Len(u) = n - 1},
                              c \in ArgChars}
ArgStrings ==
    Strings(MaxArgLen)
    \cup {Dec(n) : n \in ArgInts}
    \cup {Dec(n) \o <<"x">> : n \in {12, 2000}}
    \cup {<<" ">> \o Dec(n) : n \in {12, 2000}}
    \cup {<<"a", "b", "c">>, <<"x", "1", "0", "0", "0">>}

\* lines 132-134
ParseArg ==
    /\ pc = "main"
    /\ rounds' = parse_rounds(argc, argv1)
    /\ pc' = "clamp"
    /\ UNCHANGED <<status, accum_count, argc, argv1, rss_start,
                   rss_after_churn, rss_after_accum, rss_after_frag,
                   rss_final, ops, frag, hvars>>

\* lines 135-136
ClampRounds ==
    /\ pc = "clamp"
    /\ rounds' = clamp_rounds(rounds)
    /\ pc' = "derive"
    /\ UNCHANGED <<status, accum_count, argc, argv1, rss_start,
                   rss_after_churn, rss_after_accum, rss_after_frag,
                   rss_final, ops, frag, hvars>>

\* lines 138-140
DeriveAccumCount ==
    /\ pc = "derive"
    /\ accum_count' = derive_accum_count(rounds)
    /\ pc' = "rss_start"
    /\ UNCHANGED <<status, rounds, argc, argv1, rss_start, rss_after_churn,
                   rss_after_accum, rss_after_frag, rss_final, ops, frag,
                   hvars>>

\* line 147
ReadRssStart ==
    /\ pc = "rss_start"
    /\ \E o \in ProbeOutcomes : rss_start' = read_rss_kb(o)
    /\ pc' = "rss_after_churn"
    /\ UNCHANGED <<status, rounds, accum_count, argc, argv1, rss_after_churn,
                   rss_after_accum, rss_after_frag, rss_final, ops, frag,
                   hvars>>

\* lines 151-155: phase_churn has run
ReadRssAfterChurn ==
    /\ pc = "rss_after_churn"
    /\ \E o \in ProbeOutcomes : rss_after_churn' = read_rss_kb(o)
    /\ pc' = "rss_after_accum"
    /\ UNCHANGED <<status, rounds, accum_count, argc, argv1, rss_start,
                   rss_after_accum, rss_after_frag, rss_final, ops, frag,
                   hvars>>

\* lines 158-162: phase_accumulate has run
ReadRssAfterAccum ==
    /\ pc = "rss_after_accum"
    /\ \E o \in ProbeOutcomes : rss_after_accum' = read_rss_kb(o)
    /\ pc' = "rss_after_frag"
    /\ UNCHANGED <<status, rounds, accum_count, argc, argv1, rss_start,
                   rss_after_churn, rss_after_frag, rss_final, ops, frag,
                   hvars>>

\* lines 165-168: phase_fragment has run
ReadRssAfterFrag ==
    /\ pc = "rss_after_frag"
    /\ \E o \in ProbeOutcomes : rss_after_frag' = read_rss_kb(o)
    /\ pc' = "rss_final"
    /\ UNCHANGED <<status, rounds, accum_count, argc, argv1, rss_start,
                   rss_after_churn, rss_after_accum, rss_final, ops, frag,
                   hvars>>

\* lines 171-176: the cleanup has run
ReadRssFinal ==
    /\ pc = "rss_final"
    /\ \E o \in ProbeOutcomes : rss_final' = read_rss_kb(o)
    /\ pc' = "report_ops"
    /\ UNCHANGED <<status, rounds, accum_count, argc, argv1, rss_start,
                   rss_after_churn, rss_after_accum, rss_after_frag, ops,
                   frag, hvars>>

\* lines 197-199
ReportOps ==
    /\ pc = "report_ops"
    /\ ops' = total_ops(rounds, accum_count)
    /\ pc' = "report_frag"
    /\ UNCHANGED <<status, rounds, accum_count, argc, argv1, rss_start,
                   rss_after_churn, rss_after_accum, rss_after_frag,
                   rss_final, frag, hvars>>

\* lines 205-213
ReportFrag ==
    /\ pc = "report_frag"
    /\ frag' = IF frag_reported(rss_after_accum, rss_after_frag)
               THEN <<frag_ratio(rss_after_accum, rss_after_frag)>>
               ELSE <<>>
    /\ pc' = "reported"
    /\ status' = "returned_0"
    /\ UNCHANGED <<rounds, accum_count, argc, argv1, rss_start,
                   rss_after_churn, rss_after_accum, rss_after_frag,
                   rss_final, ops, hvars>>

\* main is entered with or without an argument (line 131); line 132 has
\* given rounds its initial value
DriverInit ==
    /\ pc = "main"
    /\ status = "running"
    /\ \/ argc = 1 /\ argv1 = <<>>
       \/ argc = 2 /\ argv1 \in ArgStrings
    /\ rounds = DEFAULT_ROUNDS
    /\ accum_count = 0
    /\ DriverIdle
    /\ WorkloadInit

DriverNext ==
    \/ ParseArg
    \/ ClampRounds
    \/ DeriveAccumCount
    \/ ReadRssStart
    \/ ReadRssAfterChurn
    \/ ReadRssAfterAccum
    \/ ReadRssAfterFrag
    \/ ReadRssFinal
    \/ ReportOps
    \/ ReportFrag

SpecDriver == DriverInit /\ [][DriverNext]_vars

(***************************************************************************)
(* Properties.  Those about the workload are checked under Spec, those     *)
(* about main's arithmetic under SpecDriver.                               *)
(***************************************************************************)
Handles == DOMAIN heap
LiveOf(ph) == {h \in Handles : heap[h].phase = ph /\ heap[h].live}
InChurn == pc \in {"phase_churn", "churn_cleanup"}
\* the buffers held in the slots of S
HeldIn(S) == {pool[s] : s \in S} \ {NULL}
\* the list entries that hold a handle
IsHandle(v) == v # NULL /\ v # UNINIT
Max(a, b) == IF a >= b THEN a ELSE b

\* C1: allocation failure is never fatal: whichever malloc call fails, the
\* run is not killed and no null list is stored through.
C1_AllocFailureNeverFatal ==
    /\ status # "killed_SIGSEGV"
    /\ pc # "crashed"
    /\ ~null_mapped

\* What does hold of the code: only a failed allocation of the list itself
\* (with at least one entry to store) is stored through; a failed slot or
\* entry allocation leaves NULL in its place and the run goes on.
C1_OnlyTheListIsFatal ==
    /\ (pc = "crashed" \/ null_mapped) => (accum_ptrs = NULL /\ accum_count > 0)
    /\ pc = "phase_churn" /\ i > 0 /\ pool[req.idx] # NULL => heap[pool[req.idx]].live
    /\ pc = "done" => status = "returned_0"

\* C2: once phase_churn has returned, its successful malloc calls equal its
\* free calls on non-null buffers, and none of its buffers is live.
C2_ChurnLeavesNothingLive ==
    ~InChurn => /\ churn_mallocs = churn_frees
                /\ LiveOf("churn") = {}
                /\ churn_mallocs = Cardinality({h \in Handles : heap[h].phase = "churn"})

C2_Witness ==
    /\ pc = "phase_accumulate"
    /\ rounds = MaxRounds
    /\ churn_mallocs >= 2
    /\ churn_mallocs < rounds

\* C3 as claimed: at every point of phase_churn the live churn buffers are
\* exactly the buffers held in non-null slots, and they are at most POOL.
C3_Original ==
    InChurn => /\ LiveOf("churn") = HeldIn(Slots)
               /\ Cardinality(LiveOf("churn")) <= POOL

\* C3 amended: between rounds the live churn buffers are exactly the
\* buffers held in non-null slots; in the cleanup loop, which frees a slot
\* without clearing it, they are exactly those held in the slots not yet
\* visited; at every point they are at most POOL.
C3_LiveAreHeld ==
    /\ pc = "phase_churn" => LiveOf("churn") = HeldIn(Slots)
    /\ pc = "churn_cleanup" => LiveOf("churn") = HeldIn({s \in Slots : s >= i})
    /\ InChurn => Cardinality(LiveOf("churn")) <= POOL
    /\ InChurn => \A h \in Handles : heap[h].frees <= 1

C3_Witness ==
    /\ pc = "phase_churn"
    /\ req.freed
    /\ pool[req.idx] # NULL
    /\ Cardinality(LiveOf("churn")) >= 2

\* C4: when phase_accumulate(count) has returned, the list has count
\* entries and the reported length is count; every entry is null or a live
\* buffer of a size in [4096, 65536) whose every byte is 0xAB; count
\* allocations were attempted.
C4_AccumulateResult ==
    (pc = "fragment_free" /\ i = 1) =>
        /\ Len(list) = accum_count
        /\ accum_actual = accum_count
        /\ acc_attempts = accum_count
        /\ \A k \in 1..Len(list) :
              \/ list[k] = NULL
              \/ /\ list[k] \in Handles
                 /\ heap[list[k]].live
                 /\ heap[list[k]].size >= ACCUM_LO
                 /\ heap[list[k]].size < ACCUM_HI
                 /\ heap[list[k]].fill = ACCUM_FILL
                 /\ heap[list[k]].filled = heap[list[k]].size

C4_Witness ==
    /\ pc = "fragment_free" /\ i = 1
    /\ accum_count = MaxCount
    /\ \E k \in 1..Len(list) : list[k] = NULL
    /\ \E k \in 1..Len(list) : IsHandle(list[k])

\* C5: phase_fragment keeps the length of the list and every even-indexed
\* entry (same buffer, same size and content, never freed); when it has
\* returned, every non-null odd-indexed entry is a live buffer it allocated,
\* of a size in [128, 8192) and filled with 0xCD, and the buffer accumulate
\* put at that index has been freed.
C5_FragmentEffect ==
    /\ pc \in {"fragment_free", "fragment_alloc"} \/ (pc = "cleanup" /\ i = 0) =>
          /\ Len(list) = Len(acc_out)
          /\ \A k \in 1..Len(list) :
                (k - 1) % 2 = 0 =>
                   /\ list[k] = acc_out[k].ptr
                   /\ IsHandle(list[k]) =>
                         /\ heap[list[k]].live
                         /\ heap[list[k]].frees = 0
                         /\ heap[list[k]].size = acc_out[k].size
                         /\ heap[list[k]].fill = acc_out[k].fill
                         /\ heap[list[k]].filled = acc_out[k].filled
    /\ (pc = "cleanup" /\ i = 0) =>
          \A k \in 1..Len(list) :
             (k - 1) % 2 = 1 =>
                /\ list[k] # NULL =>
                      /\ list[k] \in Handles
                      /\ heap[list[k]].live
                      /\ heap[list[k]].phase = "fragment"
                      /\ heap[list[k]].size >= FRAG_LO
                      /\ heap[list[k]].size < FRAG_HI
                      /\ heap[list[k]].fill = FRAG_FILL
                      /\ heap[list[k]].filled = heap[list[k]].size
                /\ IsHandle(acc_out[k].ptr) =>
                      /\ ~heap[acc_out[k].ptr].live
                      /\ heap[acc_out[k].ptr].frees = 1

C5_Witness ==
    /\ pc = "cleanup" /\ i = 0
    /\ Len(list) >= 2
    /\ IsHandle(list[1])
    /\ IsHandle(list[2])
    /\ IsHandle(acc_out[2].ptr)

\* a string with no digit in it
NoDigit(s) == \A k \in 1..Len(s) : ~IsDigit(s[k])
\* a string that does not begin (after white space and a sign) with a digit
NoLeadingNumber(s) ==
    LET t == SkipSpace(s)
        u == IF t # <<>> /\ Head(t) \in {"-", "+"} THEN Tail(t) ELSE t
    IN  u = <<>> \/ ~IsDigit(Head(u))
RoundsSettled == pc \notin {"main", "clamp"}

\* C6 as claimed: with the argument absent or non-numeric the run uses
\* 500000 rounds.
C6_Original ==
    (RoundsSettled /\ (argc = 1 \/ NoDigit(argv1))) => rounds = DEFAULT_ROUNDS

\* C6 amended: with the argument absent the run uses 500000 rounds; with an
\* argument that does not begin with a number atoi yields 0 and the run
\* uses the minimum, 1000 rounds; in neither case does it fail.
C6_DefaultOrMinimum ==
    /\ RoundsSettled /\ argc = 1 => rounds = DEFAULT_ROUNDS
    /\ RoundsSettled /\ argc = 2 /\ NoLeadingNumber(argv1) => rounds = MIN_ROUNDS
    /\ status # "killed_SIGSEGV"

C6_Witness ==
    /\ pc = "reported"
    /\ argc = 2
    /\ argv1 = <<"a", "b", "c">>
    /\ rounds = MIN_ROUNDS

\* the integers whose decimal notation is among the command lines tried
CheckedInts == {n \in ArgInts \cup (0 - 999)..999 : Dec(n) \in ArgStrings}
DecOf == {<<Dec(n), n>> : n \in CheckedInts}

\* C7: for an integer argument n the round count is max(n, 1000),
\* accum_count is max(rounds / 50, 100) and the reported operation count is
\* rounds + 3 * accum_count; 500 gives 1000 and 100, 1000 gives 1300
\* operations, 1000000 gives an accum_count of 20000.
C7_DerivedCounts ==
    (pc = "reported" /\ argc = 2) =>
        /\ \A e \in DecOf :
              argv1 = e[1] =>
                 /\ rounds = Max(e[2], 1000)
                 /\ accum_count = Max(rounds \div 50, 100)
                 /\ ops = rounds + 3 * accum_count
        /\ argv1 = <<"5", "0", "0">> => rounds = 1000 /\ accum_count = 100
        /\ argv1 = <<"1", "0", "0", "0">> => ops = 1300
        /\ argv1 = <<"1", "0", "0", "0", "0", "0", "0">> => accum_count = 20000

C7_Witness ==
    /\ pc = "reported"
    /\ argv1 = <<"5", "0", "5", "0">>
    /\ rounds = 5050
    /\ accum_count = 101
    /\ ops = 5353

\* C8: the fragmentation ratio is reported exactly when both the
\* post-accumulate and the post-fragment reading are nonzero; it is then
\* the post-fragment reading over the post-accumulate reading, and no
\* division by zero is made.
C8_FragRatio ==
    pc = "reported" =>
        /\ frag # <<>> <=> (rss_after_accum # 0 /\ rss_after_frag # 0)
        /\ frag # <<>> => frag = << <<rss_after_frag, rss_after_accum>> >>
        /\ \A k \in 1..Len(frag) : frag[k][2] # 0

C8_Witness ==
    /\ pc = "reported"
    /\ rss_after_accum = 1
    /\ rss_after_frag = 2
    /\ frag = << <<2, 1>> >>

ListInUse == pc \in {"accumulate_loop", "fragment_free", "fragment_alloc", "cleanup"}
AllFreedOnce == \A h \in Handles : ~heap[h].live /\ heap[h].frees = 1

\* C9 as claimed, for the runs whose list was allocated: from accumulate to
\* the end of the cleanup every non-null element of the list is a live
\* buffer, no buffer is freed twice, and after the cleanup every buffer and
\* the list have been freed exactly once.
C9_Original ==
    /\ ListInUse /\ accum_ptrs # NULL =>
          \A k \in 1..Len(list) : IsHandle(list[k]) => heap[list[k]].live
    /\ \A h \in Handles : heap[h].frees <= 1
    /\ pc = "done" => AllFreedOnce

\* C9 amended: during accumulate and fragment every non-null element of
\* the list is a live buffer; the cleanup loop frees an entry without
\* clearing it, so there the elements at the indices not yet visited are
\* live and the visited ones are stale; no buffer is ever freed twice; when
\* the cleanup has completed, every buffer and the list have been freed
\* exactly once and nothing is live.
C9_ListOwnsLiveBuffers ==
    /\ pc \in {"accumulate_loop", "fragment_free", "fragment_alloc", "crashed"} =>
          \A k \in 1..Len(list) : IsHandle(list[k]) => heap[list[k]].live
    /\ pc = "cleanup" =>
          \A k \in 1..Len(list) :
             IsHandle(list[k]) => (heap[list[k]].live <=> k > i)
    /\ \A h \in Handles : heap[h].frees <= 1
    /\ pc = "done" => AllFreedOnce

C9_Witness ==
    /\ pc = "done"
    /\ accum_actual = MaxCount
    /\ accum_ptrs # NULL
    /\ \E h \in Handles : heap[h].phase = "fragment"
    /\ \E k \in 1..Len(list) : list[k] = NULL

\* the generator's register after n draws, n = 0 .. MaxDraws
MaxDraws == 2 * MaxRounds + MaxCount + MaxCount \div 2
RECURSIVE DrawsFrom(_, _)
DrawsFrom(x, n) ==
    IF n = 0 THEN <<x>>
    ELSE LET y == xorshift64(x)
         IN  IF y = y THEN <<x>> \o DrawsFrom(y, n - 1) ELSE <<>>
DrawSeq == DrawsFrom(rng_seed, MaxDraws)
AfterDraws(n) == DrawSeq[n + 1]

\* round n of the churn phase of the run in which no allocation fails
RefIdx(n) == Mod(AfterDraws(2 * n + 1), POOL)
RefSz(n) == rand_range(AfterDraws(2 * n + 2), CHURN_LO, CHURN_HI)
RefFreed(n) == \E m \in 0..(n - 1) : RefIdx(m) = RefIdx(n)

\* the draws a run has made when it stands at pc, i
DrawsAt ==
    CASE pc = "phase_churn" -> 2 * i
      [] pc \in {"churn_cleanup", "phase_accumulate"} -> 2 * rounds
      [] pc = "accumulate_loop" -> 2 * rounds + i
      [] pc = "crashed" -> 2 * rounds + i + 1
      [] pc = "fragment_free" -> 2 * rounds + accum_count
      [] pc = "fragment_alloc" -> 2 * rounds + accum_count + (i - 1) \div 2
      [] OTHER -> 2 * rounds + accum_count + accum_count \div 2

\* C10 as claimed: whatever allocations fail, a run issues the requests of
\* the run in which none fails: in each churn round the same slot, the same
\* free request and the same size.
C10_Original ==
    (pc = "phase_churn" /\ i > 0) =>
        req = [idx |-> RefIdx(i - 1), freed |-> RefFreed(i - 1), sz |-> RefSz(i - 1)]

\* C10 amended: whatever allocations fail, the draws a run has made, the
\* register, and the slot and size of every allocation request depend on
\* the position of the run alone (2 draws per churn round, 1 per accumulate
\* entry, 1 per odd index of fragment; a run killed in accumulate stops
\* within that sequence).  The free request of a churn round is made only
\* for an occupied slot, so it depends on which allocations succeeded.
C10_DrawsIndependentOfOutcome ==
    /\ draws = DrawsAt
    /\ rng_state = AfterDraws(draws)
    /\ (pc = "phase_churn" /\ i > 0) =>
          /\ req.idx = RefIdx(i - 1)
          /\ req.sz = RefSz(i - 1)
          /\ req.freed => RefFreed(i - 1)
    /\ (pc = "accumulate_loop" /\ i > 0) =>
          req.sz = rand_range(AfterDraws(draws), ACCUM_LO, ACCUM_HI)
    /\ (pc = "fragment_alloc" /\ i > 1) =>
          req.sz = rand_range(AfterDraws(draws), FRAG_LO, FRAG_HI)

C10_Witness ==
    /\ pc = "done"
    /\ rounds = MaxRounds
    /\ accum_count = MaxCount
    /\ draws = 2 * MaxRounds + MaxCount + MaxCount \div 2
    /\ churn_mallocs < rounds
    /\ \E k \in 1..Len(list) : list[k] = NULL

====
